---- MODULE Spec2Model ----
(***************************************************************************)
(* Conversion-job pipeline of AdocsHub: the "conversions" table, the file  *)
(* storage, the three job-creation mutations, the three background         *)
(* actions with their terminal mutations, the client fallback patch and    *)
(* the hourly cleanup of expired conversions.                               *)
(*                                                                         *)
(* Time is counted in hours: Date.now() is `now`, the one-hour TTL is 1.   *)
(* Storage ids and conversion ids are issued in increasing order and are   *)
(* never reused.                                                            *)
(***************************************************************************)
EXTENDS Integers, Sequences, FiniteSets, TLC

\* ---------------------------------------------------------------- bounds
MaxJobs == 1
SweepJobs == 2
MaxBlobs == 3
MaxTime == 2
MaxSources == 2
MaxMergeSources == 3
MaxApiImages == 20
MaxKitImages == 3
MaxUrls == 31

\* ------------------------------------------------------ program constants
\* expiresAt: Date.now() + 60 * 60 * 1000, in hours
TTL == 1

\* createSimplePdfFromUrls: urls.length > 80, substring(0, 77), i < 30,
\* yPosition = height - 100, yPosition -= 15, yPosition < 50
DisplayMax == 80
DisplayCut == 77
ListMax == 30
ListTop == 100
LineStep == 15
ListFloor == 50
\* convertImagesWithApi: InputFile1..InputFile10, then i += 9
MergeInputs == 10
BatchSize == 9
\* height of the page pdfDoc.addPage() makes (A4, in points)
PageHeight == 841
\* length of the URL ctx.storage.getUrl gives for a stored file
UrlLength == 70

NoId == 0
None == "none"
NoUser == "anonymous"
Users == {"alice", "bob"}
Callers == Users \cup {NoUser}

ConversionType == {"pdf_to_word", "image_to_pdf", "pdf_merger"}
Terminal == {"completed", "failed"}

VARIABLES
  now,        \* Date.now()
  apiKey,     \* process.env.CLOUDMERSIVE_API_KEY is set
  jobs,       \* table "conversions": _id -> document
  blobs,      \* ids of the files present in ctx.storage
  nextId,     \* next conversion id
  nextBlob,   \* next storage id
  task,       \* scheduled background action of each created conversion
  schedCount, \* number of scheduler.runAfter calls per conversion id
  returned,   \* result of the last job-creation call
  lastWrite,  \* last patch attempted on each conversion
  lastSweep,  \* what the last cleanupExpiredConversions run saw and did
  fallbackDone, \* conversions the client has patched after its own conversion
  content,    \* the document held by each file that was ever stored
  calc,       \* a document function under evaluation: input and result
  pdfFiles,   \* table "pdfFiles": the documents inserted by startPdfStorage
  lastConvertedPdf, \* per conversion, the state of the page that created it
  polling     \* per pdf_to_word conversion, the status check of its page

vars == <<now, apiKey, jobs, blobs, nextId, nextBlob, task,
          schedCount, returned, lastWrite, lastSweep, fallbackDone,
          content, calc, pdfFiles, lastConvertedPdf, polling>>

Created == 1..(nextId - 1)

\* ----------------------------------------------------------- sequences
Range(s) == {s[i] : i \in DOMAIN s}

\* ------------------------------------------------------------- storage
\* ctx.storage.getUrl: null for a file that is not stored
getUrl(st, id) == IF id \in st THEN id ELSE NoId

\* ----------------------------------------------------------- documents
\* bytes that PDFLib.load rejects: an image, a DOCX, a damaged PDF
Unreadable == [opens |-> FALSE, pages |-> <<>>]

\* a PDF with the given pages
Pdf(pages) == [opens |-> TRUE, pages |-> pages]

\* the PDF with n pages a user uploads as file id
SourcePdf(id, n) ==
  Pdf([p \in 1..n |-> [kind |-> "page", src |-> id, no |-> p]])

\* ------------------------------------------------------- job creation
\* the storage ids of k files the client posts to upload URLs
\* (generateUploadUrl) right before it creates a job from them
Uploads(k) == [i \in 1..k |-> nextBlob + i - 1]

\* a record inserted in the schema's "pending" status
NewConversionPending(userId, type, pdfFileId, sourceFileIds, t) ==
  [userId |-> userId, status |-> "pending", type |-> type,
   pdfFileId |-> pdfFileId, docxFileId |-> NoId,
   sourceFileIds |-> sourceFileIds, fileName |-> "file",
   error |-> None, expiresAt |-> t + TTL, createdAt |-> t, updatedAt |-> t]

NewConversion(userId, type, pdfFileId, sourceFileIds, t) ==
  [userId |-> userId, status |-> "processing", type |-> type,
   pdfFileId |-> pdfFileId, docxFileId |-> NoId,
   sourceFileIds |-> sourceFileIds, fileName |-> "file",
   error |-> None, expiresAt |-> t + TTL, createdAt |-> t, updatedAt |-> t]

NewTask(fn) ==
  [fn |-> fn, pc |-> "scheduled", raised |-> None, stored |-> NoId,
   tiers |-> <<>>]

NoWrite == [by |-> None, status |-> None, applied |-> FALSE]

\* ctx.scheduler.runAfter(0, fn, {conversionId})
runAfter(fn, id) ==
  /\ task' = task @@ (id :> NewTask(fn))
  /\ schedCount' = schedCount @@ (id :> 1)

\* if (!userId) throw new Error("Not authenticated")
NotAuthenticated ==
  /\ returned' = NoId
  /\ UNCHANGED <<polling, pdfFiles, lastConvertedPdf, calc, content, now, apiKey, jobs, blobs, nextId, nextBlob, task,
                 schedCount, lastWrite, lastSweep, fallbackDone>>

\* ctx.db.insert, runAfter and the return of the new id, after the upload
\* of the files the arguments name, which hold the documents docs
Insert(doc, fn, docs) ==
  /\ nextBlob + Len(docs) - 1 <= MaxBlobs
  /\ blobs' = blobs \cup Range(Uploads(Len(docs)))
  /\ content' = content @@ [id \in Range(Uploads(Len(docs))) |->
                              docs[id - nextBlob + 1]]
  /\ nextBlob' = nextBlob + Len(docs)
  /\ jobs' = jobs @@ (nextId :> doc)
  /\ runAfter(fn, nextId)
  /\ lastWrite' = lastWrite @@ (nextId :> NoWrite)
  /\ returned' = nextId
  /\ nextId' = nextId + 1
  /\ UNCHANGED <<polling, pdfFiles, lastConvertedPdf, calc, now, apiKey, lastSweep, fallbackDone>>

startConversion(caller) ==
  IF caller = NoUser THEN NotAuthenticated
  ELSE Insert(NewConversion(caller, "pdf_to_word", Uploads(1)[1], <<>>, now),
              "convertPdfToWord", <<SourcePdf(nextBlob, 1)>>)

startImageToPdfConversion(caller, k) ==
  IF caller = NoUser THEN NotAuthenticated
  ELSE Insert(NewConversion(caller, "image_to_pdf", NoId, Uploads(k), now),
              "convertImagesToPdf", [i \in 1..k |-> Unreadable])

\* the files a user may pick for a merge: a one-page PDF or a file that
\* is not a readable PDF
MergeUploads(k) ==
  [1..k -> {"pdf", "unreadable"}]

startPdfMergerConversion(caller, k) ==
  IF caller = NoUser THEN NotAuthenticated
  ELSE \E picked \in MergeUploads(k) :
         Insert(NewConversion(caller, "pdf_merger", NoId, Uploads(k), now),
                "mergePdfFiles",
                [i \in 1..k |-> IF picked[i] = "pdf"
                                  THEN SourcePdf(Uploads(k)[i], 1)
                                  ELSE Unreadable])

Tick ==
  /\ now < MaxTime
  /\ now' = now + 1
  /\ UNCHANGED <<polling, pdfFiles, lastConvertedPdf, calc, content, apiKey, jobs, blobs, nextId, nextBlob, task,
                 schedCount, returned, lastWrite, lastSweep, fallbackDone>>

\* ------------------------------------------------------------ mutations
\* ctx.db.patch on a document that no longer exists throws
Applied(j) == j \in DOMAIN jobs

\* a completion that also renews the expiry of the conversion
markConversionCompleteRenewing(doc, success, docxFileId, t) ==
  [doc EXCEPT !.status = IF success THEN "completed" ELSE "failed",
              !.docxFileId = IF docxFileId # NoId THEN docxFileId ELSE @,
              !.expiresAt = t + TTL,
              !.updatedAt = t]

\* markConversionComplete: the patch it builds from its arguments
markConversionComplete(doc, success, docxFileId, t) ==
  [doc EXCEPT !.status = IF success THEN "completed" ELSE "failed",
              !.docxFileId = IF docxFileId # NoId THEN docxFileId ELSE @,
              !.updatedAt = t]

\* a conditional update: only a conversion that is still processing changes
updateConversionJobIfProcessing(doc, pdfFileId, status, error, t) ==
  IF doc.status # "processing" THEN doc
  ELSE [doc EXCEPT !.pdfFileId = IF pdfFileId # NoId THEN pdfFileId ELSE @,
                   !.status = IF status # None THEN status ELSE @,
                   !.error = IF error # None THEN error ELSE @,
                   !.updatedAt = t]

\* updateConversionJob: every argument is optional, an absent or falsy one
\* leaves its field alone
updateConversionJob(doc, pdfFileId, status, error, t) ==
  [doc EXCEPT !.pdfFileId = IF pdfFileId # NoId THEN pdfFileId ELSE @,
              !.status = IF status # None THEN status ELSE @,
              !.error = IF error # None THEN error ELSE @,
              !.updatedAt = t]

\* a write that inserts the record when the conversion no longer exists
PatchOrInsert(j, by, status, doc) ==
  /\ jobs' = IF Applied(j) THEN [jobs EXCEPT ![j] = doc]
             ELSE jobs @@ (j :> [NewConversion(NoUser, "pdf_to_word", NoId,
                                               <<>>, now)
                                   EXCEPT !.status = status])
  /\ lastWrite' = [lastWrite EXCEPT ![j] =
       [by |-> by, status |-> status, applied |-> TRUE]]

\* one call of a mutation on conversion j by writer `by`
Patch(j, by, status, doc) ==
  /\ jobs' = IF Applied(j) THEN [jobs EXCEPT ![j] = doc] ELSE jobs
  /\ lastWrite' = [lastWrite EXCEPT ![j] =
       [by |-> by, status |-> status, applied |-> Applied(j)]]

\* -------------------------------------------------------------- queries
\* the null a query returns for a conversion that does not exist
Null == [_id |-> NoId]

\* what the queries add to a document: the URLs of its files
WithUrls(db, st, id, sourceUrls) ==
  [_id |-> id, doc |-> db[id],
   pdfUrl |-> IF db[id].pdfFileId # NoId
                THEN getUrl(st, db[id].pdfFileId) ELSE NoId,
   docxUrl |-> IF db[id].docxFileId # NoId
                 THEN getUrl(st, db[id].docxFileId) ELSE NoId,
   sourceUrls |-> sourceUrls]

\* ids in descending order of creation: .order("desc")
RECURSIVE Desc(_)
Desc(S) ==
  IF S = {} THEN <<>>
  ELSE LET m == CHOOSE x \in S : \A y \in S : y <= x
       IN <<m>> \o Desc(S \ {m})

\* listConversions: the caller's conversions of one type, newest first;
\* the empty list for a caller who is not signed in
listConversions(db, st, caller, type) ==
  IF caller = NoUser THEN <<>>
  ELSE LET ids == Desc({j \in DOMAIN db : db[j].userId = caller
                                         /\ db[j].type = type})
       IN [i \in DOMAIN ids |->
             WithUrls(db, st, ids[i],
                      [k \in DOMAIN db[ids[i]].sourceFileIds |->
                         getUrl(st, db[ids[i]].sourceFileIds[k])])]

\* getConversion: ctx.db.get and the URLs; the handler reads no identity
getConversion(db, st, conversionId) ==
  IF conversionId \notin DOMAIN db THEN Null
  ELSE WithUrls(db, st, conversionId,
         IF db[conversionId].type \in {"image_to_pdf", "pdf_merger"}
           THEN SelectSeq([k \in DOMAIN db[conversionId].sourceFileIds |->
                             getUrl(st, db[conversionId].sourceFileIds[k])],
                          LAMBDA u : u # NoId)
           ELSE <<>>)

\* getConversionJob: ctx.db.get; the handler reads no identity
getConversionJob(db, conversionId) ==
  IF conversionId \in DOMAIN db THEN db[conversionId] ELSE Null

\* ---------------------------------------------- pdf_to_word background task
\* the try block of convertPdfToWord up to ctx.storage.store: the message
\* it throws, or None when the converted file is ready to be stored
PdfToWordRaised(j, ext) ==
  IF j \notin DOMAIN jobs THEN "Conversion not found"
  ELSE IF ~apiKey
    THEN "Cloudmersive API key not found in environment variables"
  ELSE IF jobs[j].pdfFileId = NoId THEN "PDF file ID is missing"
  ELSE IF getUrl(blobs, jobs[j].pdfFileId) = NoId THEN "PDF file not found"
  ELSE IF ext = "fails" THEN "Cloudmersive API error"
  ELSE None

\* a task without its catch block: an error ends it, and no write follows
RanUncaught(j, raised, tiers, store, out) ==
  /\ IF store
       THEN /\ nextBlob <= MaxBlobs
            /\ blobs' = blobs \cup {nextBlob}
            /\ content' = content @@ (nextBlob :> out)
            /\ nextBlob' = nextBlob + 1
       ELSE UNCHANGED <<blobs, content, nextBlob>>
  /\ task' = [task EXCEPT ![j] =
       [@ EXCEPT !.pc = IF raised = None THEN "writing" ELSE "done",
                 !.raised = raised, !.tiers = tiers,
                 !.stored = IF store THEN nextBlob ELSE NoId]]
  /\ UNCHANGED <<polling, pdfFiles, lastConvertedPdf, calc, now, apiKey, jobs, nextId,
                 schedCount, returned, lastWrite, lastSweep, fallbackDone>>

\* the task has run its chain: it holds either a stored file or a message
Ran(j, raised, tiers, store, out) ==
  /\ IF store
       THEN /\ nextBlob <= MaxBlobs
            /\ blobs' = blobs \cup {nextBlob}
            /\ content' = content @@ (nextBlob :> out)
            /\ nextBlob' = nextBlob + 1
       ELSE UNCHANGED <<blobs, content, nextBlob>>
  /\ task' = [task EXCEPT ![j] =
       [@ EXCEPT !.pc = "writing", !.raised = raised, !.tiers = tiers,
                 !.stored = IF store THEN nextBlob ELSE NoId]]
  /\ UNCHANGED <<polling, pdfFiles, lastConvertedPdf, calc, now, apiKey, jobs, nextId, schedCount, returned,
                 lastWrite, lastSweep, fallbackDone>>

convertPdfToWord(j, ext) ==
  /\ task[j].fn = "convertPdfToWord"
  /\ task[j].pc = "scheduled"
  /\ Ran(j, PdfToWordRaised(j, ext), <<>>, PdfToWordRaised(j, ext) = None,
         Unreadable)

\* a task that runs again after a failed conversion
convertPdfToWordWriteRetry(j) ==
  /\ task[j].fn = "convertPdfToWord"
  /\ task[j].pc = "writing"
  /\ LET ok == task[j].raised = None
     IN Patch(j, "dispatcher", IF ok THEN "completed" ELSE "failed",
              IF Applied(j)
                THEN markConversionComplete(jobs[j], ok, task[j].stored, now)
                ELSE None)
  /\ task' = [task EXCEPT ![j].pc = IF task[j].raised = None
                                     THEN "done" ELSE "scheduled"]
  /\ UNCHANGED <<polling, pdfFiles, lastConvertedPdf, calc, content, now, apiKey, blobs, nextId, nextBlob, schedCount,
                 returned, lastSweep, fallbackDone>>

\* the call of markConversionComplete that ends convertPdfToWord: with
\* success and the stored file, or from the catch block without them
convertPdfToWordWrite(j) ==
  /\ task[j].fn = "convertPdfToWord"
  /\ task[j].pc = "writing"
  /\ LET ok == task[j].raised = None
     IN Patch(j, "dispatcher", IF ok THEN "completed" ELSE "failed",
              IF Applied(j)
                THEN markConversionComplete(jobs[j], ok, task[j].stored, now)
                ELSE None)
  /\ task' = [task EXCEPT ![j].pc = "done"]
  /\ UNCHANGED <<polling, pdfFiles, lastConvertedPdf, calc, content, now, apiKey, blobs, nextId, nextBlob, schedCount,
                 returned, lastSweep, fallbackDone>>

\* ------------------------------------------------- convertImagesWithApi
\* the PDF the remote API makes of one image
ImagePdf(image) == <<[kind |-> "image", src |-> image, no |-> 1]>>

\* the remote merge endpoints: the pages of the inputs, one input after
\* the other
RECURSIVE Concat(_)
Concat(inputs) ==
  IF inputs = <<>> THEN <<>> ELSE Head(inputs) \o Concat(Tail(inputs))

\* one call of a merge endpoint, as the remote API sees it
MergeCall(endpoint, inputs) ==
  [endpoint |-> endpoint, inputs |-> inputs, out |-> Concat(inputs)]

Smaller(a, b) == IF a <= b THEN a ELSE b

\* a batch that takes ten new documents
NextBatchOfTen(pdfPages, i) ==
  SubSeq(pdfPages, i, Smaller(i + BatchSize, Len(pdfPages)))

\* pdfPages.slice(i, i + 9), counting from 1
NextBatch(pdfPages, i) ==
  SubSeq(pdfPages, i, Smaller(i + BatchSize - 1, Len(pdfPages)))

\* for (let i = 10; i < pdfPages.length; i += 9): each round merges the
\* document so far as InputFile1 with the next batch; i counts from 1
RECURSIVE MergeBatches(_, _, _)
MergeBatches(calls, pdfPages, i) ==
  IF i > Len(pdfPages) THEN calls
  ELSE MergeBatches(
         Append(calls,
                MergeCall("mergeDocumentPdfMulti",
                          <<calls[Len(calls)].out>> \o NextBatch(pdfPages, i))),
         pdfPages, i + BatchSize)

\* convertImagesWithApi: the merge calls it makes and the PDF it returns,
\* when every call of the remote API succeeds
convertImagesWithApi(imageBuffers) ==
  LET pdfPages == [i \in DOMAIN imageBuffers |-> ImagePdf(imageBuffers[i])]
      n == Len(pdfPages)
      first == MergeCall("mergeDocumentPdfMulti",
                         SubSeq(pdfPages, 1, Smaller(n, MergeInputs)))
      calls == IF n <= 1 THEN <<>>
               ELSE IF n = 2
                 THEN <<MergeCall("mergeDocumentPdf", pdfPages)>>
               ELSE IF n > MergeInputs
                 THEN MergeBatches(<<first>>, pdfPages, MergeInputs + 1)
               ELSE <<first>>
  IN [raised |-> IF n = 0 THEN "Invalid PDF merge state" ELSE None,
      calls |-> calls,
      pdf |-> IF n = 0 THEN Unreadable
              ELSE IF n = 1 THEN Pdf(pdfPages[1])
              ELSE Pdf(calls[Len(calls)].out)]

\* --------------------------------------------- image_to_pdf background task
\* sourceFileIds mapped through ctx.storage.getUrl
SourceUrls(doc) == [i \in DOMAIN doc.sourceFileIds |->
                      getUrl(blobs, doc.sourceFileIds[i])]

\* urls.filter(Boolean)
ValidUrls(urls) == SelectSeq(urls, LAMBDA u : u # NoId)

\* convertWithCloudmersive handles one image and throws for several
convertWithCloudmersive(validUrls, t1) == Len(validUrls) = 1 /\ t1

\* the try/catch around convertWithCloudmersive: the remote tier is
\* attempted when the API key is set
Tier1(validUrls, t1) ==
  IF apiKey
    THEN <<[tier |-> 1, ok |-> convertWithCloudmersive(validUrls, t1)]>>
    ELSE <<>>

Succeeded(attempts) == \E i \in DOMAIN attempts : attempts[i].ok

\* the embedded tier run whether or not the remote tier returned
Tier2Always(attempts, t2) == Append(attempts, [tier |-> 2, ok |-> t2])

\* the try/catch around convertWithPdfKit, reached when no earlier return
Tier2(attempts, t2) ==
  IF Succeeded(attempts) THEN attempts
  ELSE Append(attempts, [tier |-> 2, ok |-> t2])

\* createSimplePdfFromUrls, reached when no earlier return
Tier3(attempts, t3) ==
  IF Succeeded(attempts) THEN attempts
  ELSE Append(attempts, [tier |-> 3, ok |-> t3])

\* convertImagesToPdfBuffer: the tiers it attempts on the valid urls, in
\* the order it attempts them, each with its outcome
convertImagesToPdfBuffer(validUrls, t1, t2, t3) ==
  Tier3(Tier2(Tier1(validUrls, t1), t2), t3)

\* the document of convertWithCloudmersive: the page of its one image
cloudmersivePdf(urls) ==
  Pdf(<<[kind |-> "image", src |-> urls[1], no |-> 1]>>)

\* convertWithPdfKit on the downloaded images: for each image in order
\* doc.addPage and doc.image; a doc.image that throws is caught by the one
\* try block around the loop, which rejects the whole document
convertWithPdfKit(images) ==
  IF \A i \in DOMAIN images : images[i].placeable
    THEN [ok |-> TRUE,
          pdf |-> Pdf([i \in DOMAIN images |->
                         [kind |-> "image", src |-> images[i].url, no |-> i]])]
    ELSE [ok |-> FALSE, pdf |-> Unreadable]

\* const displayUrl = url.length > 80 ? url.substring(0, 77) + '...' : url
DisplayUrl(url) ==
  IF url.length > DisplayMax
    THEN [url EXCEPT !.length = DisplayCut + 3, !.cut = TRUE]
    ELSE url

\* the loop listing every URL, without the limit of 30 lines
RECURSIVE ListEveryUrl(_, _, _, _)
ListEveryUrl(urls, i, yPosition, lines) ==
  IF i > Len(urls) THEN lines
  ELSE LET listed == Append(lines, [no |-> i, ref |-> DisplayUrl(urls[i])])
       IN IF yPosition - LineStep < ListFloor
            THEN Append(listed, [no |-> 0, more |-> Len(urls) - i])
            ELSE ListEveryUrl(urls, i + 1, yPosition - LineStep, listed)

\* the loop of createSimplePdfFromUrls that lists the URLs: at most 30
\* lines, 15 points apart, and a closing note once the next line would
\* fall below 50 points
RECURSIVE ListUrls(_, _, _, _)
ListUrls(urls, i, yPosition, lines) ==
  IF i > Len(urls) \/ i > ListMax THEN lines
  ELSE LET listed == Append(lines, [no |-> i, ref |-> DisplayUrl(urls[i])])
       IN IF yPosition - LineStep < ListFloor
            THEN Append(listed, [no |-> 0, more |-> Len(urls) - i])
            ELSE ListUrls(urls, i + 1, yPosition - LineStep, listed)

\* createSimplePdfFromUrls: a cover page and a page of image references
createSimplePdfFromUrls(urls) ==
  Pdf(<<[kind |-> "cover", count |-> Len(urls)],
        [kind |-> "references",
         lines |-> ListUrls(urls, 1, PageHeight - ListTop, <<>>)]>>)

\* a storage URL as the server sees it
StorageUrl(id) == [id |-> id, length |-> UrlLength, cut |-> FALSE]

\* the document convertImagesToPdfBuffer returns: that of the tier that
\* succeeded
ChainPdf(validUrls, attempts) ==
  LET last == attempts[Len(attempts)].tier
  IN CASE last = 1 -> cloudmersivePdf(validUrls)
       [] last = 2 ->
            convertWithPdfKit([i \in DOMAIN validUrls |->
                                 [url |-> validUrls[i],
                                  placeable |-> TRUE]]).pdf
       [] last = 3 ->
            createSimplePdfFromUrls([i \in DOMAIN validUrls |->
                                       StorageUrl(validUrls[i])])

TierMessage(tier) ==
  CASE tier = 1 -> "Cloudmersive conversion failed"
    [] tier = 2 -> "PDFKit conversion failed"
    [] tier = 3 -> "Simple PDF generation failed"

\* the message of the first tier that failed
ChainRaisedFirst(attempts) ==
  IF Succeeded(attempts) THEN None
  ELSE TierMessage(attempts[1].tier)

\* what convertImagesToPdfBuffer throws: the rejection of the last tier
ChainRaised(attempts) ==
  IF Succeeded(attempts) THEN None
  ELSE TierMessage(attempts[Len(attempts)].tier)

\* the try block of convertImagesToPdf up to the upload: the message it
\* throws, or None when the upload has answered with a storage id
ImagesRaised(doc, attempts, up) ==
  IF Len(doc.sourceFileIds) = 0 THEN "No source images found"
  ELSE IF Len(ValidUrls(SourceUrls(doc))) = 0
    THEN "No valid image URLs to convert"
  ELSE IF ~Succeeded(attempts) THEN ChainRaised(attempts)
  ELSE IF up = "throws" THEN "fetch failed"
  ELSE None

UploadOutcomes == {"stored", "throws"}

\* convertImagesToPdf from its start to the response of the upload
convertImagesToPdf(j, t1, t2, t3, up) ==
  /\ task[j].fn = "convertImagesToPdf"
  /\ task[j].pc = "scheduled"
  /\ IF j \notin DOMAIN jobs \/ (j \in DOMAIN jobs /\ jobs[j].type # "image_to_pdf")
       THEN \* thrown before the try block: no mutation follows
            /\ task' = [task EXCEPT ![j] =
                 [@ EXCEPT !.pc = "done", !.raised = "Invalid conversion job"]]
            /\ UNCHANGED <<polling, pdfFiles, lastConvertedPdf, calc, content, now, apiKey, jobs, blobs, nextId,
                           nextBlob, schedCount, returned, lastWrite,
                           lastSweep, fallbackDone>>
       ELSE LET valid == ValidUrls(SourceUrls(jobs[j]))
                attempts == IF Len(valid) = 0 THEN <<>>
                            ELSE convertImagesToPdfBuffer(valid, t1, t2, t3)
                raised == ImagesRaised(jobs[j], attempts, up)
            IN Ran(j, raised, attempts, raised = None /\ up = "stored",
                   IF raised = None THEN ChainPdf(valid, attempts)
                   ELSE Unreadable)

\* a task that is scheduled again after its write
updateConversionJobWriteRetry(j) ==
  /\ task[j].fn \in {"convertImagesToPdf", "mergePdfFiles"}
  /\ task[j].pc = "writing"
  /\ LET ok == task[j].raised = None
         status == IF ok THEN "completed" ELSE "failed"
     IN Patch(j, "dispatcher", status,
              IF Applied(j)
                THEN updateConversionJob(jobs[j], task[j].stored, status,
                                         task[j].raised, now)
                ELSE None)
  /\ task' = [task EXCEPT ![j].pc = "scheduled"]
  /\ UNCHANGED <<polling, pdfFiles, lastConvertedPdf, calc, content, now, apiKey, blobs, nextId, nextBlob, schedCount,
                 returned, lastSweep, fallbackDone>>

\* the call of updateConversionJob that ends convertImagesToPdf or
\* mergePdfFiles: completed with the stored file, or failed with the message
updateConversionJobWrite(j) ==
  /\ task[j].fn \in {"convertImagesToPdf", "mergePdfFiles"}
  /\ task[j].pc = "writing"
  /\ LET ok == task[j].raised = None
         status == IF ok THEN "completed" ELSE "failed"
     IN Patch(j, "dispatcher", status,
              IF Applied(j)
                THEN updateConversionJob(jobs[j], task[j].stored, status,
                                         task[j].raised, now)
                ELSE None)
  /\ task' = [task EXCEPT ![j].pc = "done"]
  /\ UNCHANGED <<polling, pdfFiles, lastConvertedPdf, calc, content, now, apiKey, blobs, nextId, nextBlob, schedCount,
                 returned, lastSweep, fallbackDone>>

\* ----------------------------------------------- pdf_merger background task
\* a merge that treats a set of sources of which none opens as an error
MergeRaisedIfNoneOpens(j, ext) ==
  IF j \in DOMAIN jobs /\ Len(jobs[j].sourceFileIds) >= 2
     /\ \A i \in DOMAIN jobs[j].sourceFileIds :
          ~content[jobs[j].sourceFileIds[i]].opens
    THEN "No readable PDF"
  ELSE IF ext = "fails" THEN "Failed to download PDF"
  ELSE None

\* the try block of mergePdfFiles up to ctx.storage.store
MergeRaised(j, ext) ==
  IF j \notin DOMAIN jobs THEN "Conversion not found"
  ELSE IF Len(jobs[j].sourceFileIds) < 2
    THEN "At least two PDF files are required for merging"
  ELSE IF \E i \in DOMAIN jobs[j].sourceFileIds :
            getUrl(blobs, jobs[j].sourceFileIds[i]) = NoId
    THEN "PDF file not found for ID"
  ELSE IF ext = "fails" THEN "Failed to download PDF"
  ELSE None

\* the loop over the downloaded buffers that stops at the first one
\* PDFLib.load rejects
RECURSIVE CopyPagesUntilError(_, _, _)
CopyPagesUntilError(mergedPdf, pdfBuffers, i) ==
  IF i > Len(pdfBuffers) \/ ~pdfBuffers[i].opens THEN mergedPdf
  ELSE CopyPagesUntilError(mergedPdf \o pdfBuffers[i].pages, pdfBuffers, i + 1)

\* the loop over the downloaded buffers: PDFLib.load, copyPages of all page
\* indices and addPage of each page in order; a buffer that throws is
\* logged and the loop goes on with the next
RECURSIVE CopyPages(_, _, _)
CopyPages(mergedPdf, pdfBuffers, i) ==
  IF i > Len(pdfBuffers) THEN mergedPdf
  ELSE CopyPages(IF pdfBuffers[i].opens
                   THEN mergedPdf \o pdfBuffers[i].pages
                   ELSE mergedPdf,
                 pdfBuffers, i + 1)

\* mergedPdf.save(): pdf-lib's save adds one blank page to a document that
\* has no page (its addDefaultPage option, on unless the caller turns it
\* off, and mergePdfFiles passes no option)
save(pages) ==
  IF Len(pages) = 0 THEN Pdf(<<[kind |-> "blank"]>>) ELSE Pdf(pages)

\* PDFLib.create, the loop, mergedPdf.save
MergedPdf(pdfBuffers) == save(CopyPages(<<>>, pdfBuffers, 1))

mergePdfFiles(j, ext) ==
  /\ task[j].fn = "mergePdfFiles"
  /\ task[j].pc = "scheduled"
  /\ Ran(j, MergeRaised(j, ext), <<>>, MergeRaised(j, ext) = None,
         IF MergeRaised(j, ext) = None
           THEN MergedPdf([i \in DOMAIN jobs[j].sourceFileIds |->
                             content[jobs[j].sourceFileIds[i]]])
           ELSE Unreadable)

\* ------------------------------------------------------- client fallback
\* A client patches an image_to_pdf conversion with the PDF it generated and
\* uploaded itself: uploadPdf, then the public mutation updateConversionJob
\* with {pdfFileId: storageId, status: "completed"}.  This is the call
\* handleConversion is written to make; in the page as it stands the name
\* conversionId is out of scope at that call, so the page's own call raises
\* before it is sent (handleConversion below), but the mutation is public
\* and takes the same arguments from any client that holds the id.
\* the PDF generatePdfFromImages makes in the browser
ClientPdf == Pdf(<<[kind |-> "client"]>>)

ClientFallbackWrite(j) ==
  /\ j \in Created
  /\ task[j].fn = "convertImagesToPdf"
  /\ j \notin fallbackDone
  /\ nextBlob <= MaxBlobs
  /\ blobs' = blobs \cup {nextBlob}
  /\ content' = content @@ (nextBlob :> ClientPdf)
  /\ nextBlob' = nextBlob + 1
  /\ Patch(j, "client", "completed",
           IF Applied(j)
             THEN updateConversionJob(jobs[j], nextBlob, "completed", None,
                                      now)
             ELSE None)
  /\ fallbackDone' = fallbackDone \cup {j}
  /\ UNCHANGED <<polling, pdfFiles, lastConvertedPdf, calc, now, apiKey, nextId, task, schedCount, returned, lastSweep>>

\* ------------------------------------------ the image-to-PDF page
\* uploadPdf: the file goes to the storage and startPdfStorage inserts its
\* reference into "pdfFiles"
uploadPdf(userId, pdfBuffer) ==
  /\ nextBlob <= MaxBlobs
  /\ blobs' = blobs \cup {nextBlob}
  /\ content' = content @@ (nextBlob :> pdfBuffer)
  /\ nextBlob' = nextBlob + 1
  /\ pdfFiles' = pdfFiles \cup {[userId |-> userId, pdfFileId |-> nextBlob,
                                  createdAt |-> now]}

\* the page's call of updateConversionJob with jobId: conversionId. The
\* name conversionId is declared inside the block of the server attempt and
\* does not exist in the block of the fallback: evaluating the argument
\* raises, the catch around the call logs it, and no call reaches the server
PagePatch(j, storageId) == UNCHANGED <<jobs, lastWrite>>

setLastConvertedPdf(j, by, storageId) ==
  lastConvertedPdf' = lastConvertedPdf @@ (j :> [by |-> by,
                                                 storageId |-> storageId])

\* handleConversion after its wait for the server, on the conversion j its
\* call of startImageToPdfConversion returned: it reads the conversion and
\* keeps the server's file when the conversion is completed; otherwise it
\* converts in the browser, uploads the file and patches the conversion.
\* A failure of the conversion or upload is caught and reported.
handleConversion(j, up) ==
  /\ j \in DOMAIN jobs
  /\ jobs[j].type = "image_to_pdf"
  /\ Len(jobs[j].sourceFileIds) >= 1
  /\ j \notin DOMAIN lastConvertedPdf
  /\ LET conversion == getConversion(jobs, blobs, j)
     IN IF conversion.doc.status = "completed" /\ conversion.pdfUrl # NoId
          THEN /\ setLastConvertedPdf(j, "server", conversion.doc.pdfFileId)
               /\ UNCHANGED <<blobs, content, nextBlob, pdfFiles, jobs,
                              lastWrite>>
        ELSE IF up = "fails"
          THEN /\ setLastConvertedPdf(j, "none", NoId)
               /\ UNCHANGED <<blobs, content, nextBlob, pdfFiles, jobs,
                              lastWrite>>
        ELSE /\ uploadPdf(jobs[j].userId, ClientPdf)
             /\ setLastConvertedPdf(j, "client", nextBlob)
             /\ PagePatch(j, nextBlob)
  /\ UNCHANGED <<calc, now, apiKey, nextId, task, schedCount, returned,
                 lastSweep, fallbackDone, polling>>

\* ------------------------------------------- the PDF-to-Word page
\* the effect on lastConvertedFile.conversionId: once handleFileUpload has
\* the id of the conversion it started, the page begins to check it
startPolling(j) ==
  /\ j \in Created
  /\ task[j].fn = "convertPdfToWord"
  /\ j \notin DOMAIN polling
  /\ polling' = polling @@ (j :> "polling")
  /\ UNCHANGED <<pdfFiles, lastConvertedPdf, calc, content, now, apiKey,
                 jobs, blobs, nextId, nextBlob, task, schedCount, returned,
                 lastWrite, lastSweep, fallbackDone>>

\* what checkStatus returns for the answer of getConversion: true stops the
\* checks, false lets the interval go on
Done(conversion, threw) ==
  IF threw THEN TRUE
  ELSE IF conversion = Null THEN FALSE
  ELSE IF conversion.doc.status = "completed" /\ conversion.docxUrl # NoId
    THEN TRUE
  ELSE conversion.doc.status = "failed"

\* one run of checkStatus, at once or from the interval of 3 seconds;
\* threw says that the query raised
checkStatus(j, threw) ==
  /\ j \in DOMAIN polling
  /\ polling[j] = "polling"
  /\ polling' = [polling EXCEPT ![j] =
       IF Done(getConversion(jobs, blobs, j), threw)
         THEN "stopped" ELSE "polling"]
  /\ UNCHANGED <<pdfFiles, lastConvertedPdf, calc, content, now, apiKey,
                 jobs, blobs, nextId, nextBlob, task, schedCount, returned,
                 lastWrite, lastSweep, fallbackDone>>

\* ---------------------------------------------------------------- reaper
\* the query of cleanupExpiredConversions: q.lt(q.field("expiresAt"), now)
Expired(db, t) == {j \in DOMAIN db : db[j].expiresAt < t}

Min(S) == CHOOSE x \in S : \A y \in S : x <= y

\* the storage deletes in the try block for one conversion; f names the
\* ctx.storage.delete call that throws, if one does
DeleteFiles(doc, st, f) ==
  LET pdfThrows == doc.pdfFileId # NoId /\ f = "pdf"
      st1 == IF doc.pdfFileId # NoId /\ ~pdfThrows
               THEN st \ {doc.pdfFileId} ELSE st
      docxThrows == ~pdfThrows /\ doc.docxFileId # NoId /\ f = "docx"
      st2 == IF ~pdfThrows /\ ~docxThrows /\ doc.docxFileId # NoId
               THEN st1 \ {doc.docxFileId} ELSE st1
  IN [threw |-> pdfThrows \/ docxThrows, blobs |-> st2]

\* an error that leaves the loop
AbortCleanup(acc, j) == [acc EXCEPT !.threw = @ \cup {j}, !.aborted = TRUE]

\* the catch block inside the loop: log and go on with the next conversion
CatchCleanupError(acc, j) == [acc EXCEPT !.threw = @ \cup {j}]

\* an iteration that counts the conversion before it cleans it up
CleanupOneCountingFirst(acc, j, f) ==
  IF acc.aborted THEN acc
  ELSE LET r == DeleteFiles(acc.db[j], acc.blobs, f)
       IN IF r.threw
            THEN CatchCleanupError([acc EXCEPT !.blobs = r.blobs,
                                               !.deletedCount = @ + 1], j)
            ELSE [acc EXCEPT !.blobs = r.blobs,
                             !.db = [k \in DOMAIN acc.db \ {j} |-> acc.db[k]],
                             !.deletedCount = @ + 1]

\* one iteration of the loop over the expired conversions
CleanupOne(acc, j, f) ==
  IF acc.aborted THEN acc
  ELSE LET r == DeleteFiles(acc.db[j], acc.blobs, f)
       IN IF r.threw
            THEN CatchCleanupError([acc EXCEPT !.blobs = r.blobs], j)
            ELSE [acc EXCEPT !.blobs = r.blobs,
                             !.db = [k \in DOMAIN acc.db \ {j} |-> acc.db[k]],
                             !.deletedCount = @ + 1]

\* the loop, in the order the query collects: by creation
RECURSIVE CleanupLoop(_, _, _)
CleanupLoop(acc, ids, fail) ==
  IF ids = {} THEN acc
  ELSE LET j == Min(ids)
       IN CleanupLoop(CleanupOne(acc, j, fail[j]), ids \ {j}, fail)

\* the storage delete calls a conversion's cleanup makes, each of which
\* may throw
FailChoices(doc) ==
  {"none"} \cup (IF doc.pdfFileId # NoId THEN {"pdf"} ELSE {})
           \cup (IF doc.docxFileId # NoId THEN {"docx"} ELSE {})

\* the handler of cleanupExpiredConversions, where `throwing` are the
\* ctx.storage.delete calls that may throw during the run
Cleanup(throwing) ==
  LET ids == Expired(jobs, now)
  IN \E fail \in [ids -> {"none"} \cup throwing] :
       /\ \A j \in ids : fail[j] \in FailChoices(jobs[j])
       /\ LET acc == CleanupLoop([db |-> jobs, blobs |-> blobs, threw |-> {},
                                  deletedCount |-> 0, aborted |-> FALSE],
                                 ids, fail)
          IN /\ jobs' = acc.db
             /\ blobs' = acc.blobs
             /\ lastSweep' = [expired |-> ids, threw |-> acc.threw,
                              deletedCount |-> acc.deletedCount]
       /\ UNCHANGED <<polling, pdfFiles, lastConvertedPdf, calc, content, now, apiKey, nextId, nextBlob, task,
                      schedCount, returned, lastWrite, fallbackDone>>

cleanupExpiredConversions == Cleanup({"pdf", "docx"})

\* no document function is under evaluation
Idle == [fn |-> None]

Init ==
  /\ now = 0
  /\ apiKey \in BOOLEAN
  /\ jobs = <<>>
  /\ blobs = {}
  /\ nextId = 1
  /\ nextBlob = 1
  /\ task = <<>>
  /\ schedCount = <<>>
  /\ returned = NoId
  /\ lastWrite = <<>>
  /\ lastSweep = [expired |-> {}, threw |-> {}, deletedCount |-> 0]
  /\ fallbackDone = {}
  /\ content = <<>>
  /\ calc = Idle
  /\ pdfFiles = {}
  /\ lastConvertedPdf = <<>>
  /\ polling = <<>>

ExtOutcomes == {"ok", "fails"}

Next ==
  \/ Tick
  \/ nextId <= MaxJobs /\ \E c \in Callers : startConversion(c)
  \/ nextId <= MaxJobs /\ \E c \in Callers, k \in 0..MaxSources :
       startImageToPdfConversion(c, k)
  \/ nextId <= MaxJobs /\ \E c \in Callers, k \in 0..MaxSources :
       startPdfMergerConversion(c, k)
  \/ \E j \in Created, ext \in ExtOutcomes : convertPdfToWord(j, ext)
  \/ \E j \in Created : convertPdfToWordWrite(j)
  \/ \E j \in Created, t1, t2, t3 \in BOOLEAN, up \in UploadOutcomes :
       convertImagesToPdf(j, t1, t2, t3, up)
  \/ \E j \in Created, ext \in ExtOutcomes : mergePdfFiles(j, ext)
  \/ \E j \in Created : updateConversionJobWrite(j)
  \/ \E j \in Created : ClientFallbackWrite(j)
  \/ \E j \in Created, up \in ExtOutcomes : handleConversion(j, up)
  \/ cleanupExpiredConversions

Spec == Init /\ [][Next]_vars

\* The pipeline when no process crashes and every external call returns or
\* fails: the scheduler runs each scheduled task, and a task that has run
\* goes on to its write.
RunTask(j) ==
  \/ \E ext \in ExtOutcomes : convertPdfToWord(j, ext)
  \/ convertPdfToWordWrite(j)
  \/ \E t1, t2, t3 \in BOOLEAN, up \in UploadOutcomes :
       convertImagesToPdf(j, t1, t2, t3, up)
  \/ \E ext \in ExtOutcomes : mergePdfFiles(j, ext)
  \/ updateConversionJobWrite(j)

SpecLive ==
  Init /\ [][Next]_vars /\ \A j \in 1..MaxJobs : WF_vars(j \in Created /\ RunTask(j))

\* The PDF-to-Word page and its conversion: the page starts a conversion,
\* checks it every 3 seconds, the task runs and the cleanup sweeps. The
\* timer keeps firing and no process crashes.
NextPoll ==
  \/ Tick
  \/ nextId <= MaxJobs /\ \E c \in Users : startConversion(c)
  \/ \E j \in Created, ext \in ExtOutcomes : convertPdfToWord(j, ext)
  \/ \E j \in Created : convertPdfToWordWrite(j)
  \/ \E j \in Created : startPolling(j)
  \/ \E j \in Created, threw \in BOOLEAN : checkStatus(j, threw)
  \/ cleanupExpiredConversions

SpecPoll ==
  /\ Init
  /\ [][NextPoll]_vars
  /\ \A j \in 1..MaxJobs : WF_vars(j \in Created /\ RunTask(j))
  /\ \A j \in 1..MaxJobs : WF_vars(j \in Created /\ checkStatus(j, FALSE))

\* The reaper over several conversions: one signed-in user creates
\* pdf_to_word and image_to_pdf conversions, their tasks run, and the
\* cleanup sweeps them.
NextSweep ==
  \/ Tick
  \/ nextId <= SweepJobs /\ startConversion("alice")
  \/ nextId <= SweepJobs /\ startImageToPdfConversion("alice", 1)
  \/ \E j \in Created, ext \in ExtOutcomes : convertPdfToWord(j, ext)
  \/ \E j \in Created : convertPdfToWordWrite(j)
  \/ \E j \in Created, t3 \in BOOLEAN, up \in UploadOutcomes :
       convertImagesToPdf(j, FALSE, FALSE, t3, up)
  \/ \E j \in Created : updateConversionJobWrite(j)
  \/ cleanupExpiredConversions

SpecSweep == Init /\ [][NextSweep]_vars

\* The pipeline while the file storage is up: no ctx.storage.delete throws.
NextStorageUp ==
  \/ Tick
  \/ nextId <= MaxJobs /\ \E c \in Callers : startConversion(c)
  \/ nextId <= MaxJobs /\ \E c \in Callers, k \in 0..MaxSources :
       startImageToPdfConversion(c, k)
  \/ nextId <= MaxJobs /\ \E c \in Callers, k \in 0..MaxSources :
       startPdfMergerConversion(c, k)
  \/ \E j \in Created, ext \in ExtOutcomes : convertPdfToWord(j, ext)
  \/ \E j \in Created : convertPdfToWordWrite(j)
  \/ \E j \in Created, t1, t2, t3 \in BOOLEAN, up \in UploadOutcomes :
       convertImagesToPdf(j, t1, t2, t3, up)
  \/ \E j \in Created, ext \in ExtOutcomes : mergePdfFiles(j, ext)
  \/ \E j \in Created : updateConversionJobWrite(j)
  \/ \E j \in Created : ClientFallbackWrite(j)
  \/ Cleanup({})

SpecStorageUp == Init /\ [][NextStorageUp]_vars

\* ------------------------------------------------ the document functions
\* The functions that build documents, each applied to inputs of its own:
\* the merge loop with save, convertImagesWithApi, convertWithPdfKit and
\* createSimplePdfFromUrls.
MergePageCounts == {2, 5}

\* two or three sources (mergePdfFiles takes no fewer than two), each
\* unreadable or a PDF of two or five pages; the i-th source is file i
MergeInputSets ==
  UNION {{[i \in 1..k |-> IF pick[i] = 0 THEN Unreadable
                          ELSE SourcePdf(i, pick[i])] :
            pick \in [1..k -> {0} \cup MergePageCounts]} :
         k \in 2..MaxMergeSources}

ApiInputSets == {[i \in 1..n |-> i] : n \in 1..MaxApiImages}

\* the URLs of one to three images, handed to the remote tier of the chain
CloudInputSets == {[i \in 1..k |-> i] : k \in 1..MaxKitImages}

KitInputSets ==
  UNION {{[i \in 1..k |-> [url |-> i, placeable |-> ok[i]]] :
            ok \in [1..k -> BOOLEAN]} :
         k \in 1..MaxKitImages}

\* URLs of at most 80 characters, or all longer
UrlInputSets ==
  {[i \in 1..k |-> [id |-> i, length |-> len, cut |-> FALSE]] :
     k \in 1..MaxUrls, len \in {UrlLength, DisplayMax + 1}}

Call(fn, in) == [fn |-> fn, in |-> in, done |-> FALSE, out |-> Unreadable]

InitDocs ==
  /\ now = 0
  /\ apiKey = TRUE
  /\ jobs = <<>>
  /\ blobs = {}
  /\ nextId = 1
  /\ nextBlob = 1
  /\ task = <<>>
  /\ schedCount = <<>>
  /\ returned = NoId
  /\ lastWrite = <<>>
  /\ lastSweep = [expired |-> {}, threw |-> {}, deletedCount |-> 0]
  /\ fallbackDone = {}
  /\ content = <<>>
  /\ pdfFiles = {}
  /\ lastConvertedPdf = <<>>
  /\ polling = <<>>
  /\ calc \in {Call("MergedPdf", in) : in \in MergeInputSets}
         \cup {Call("convertImagesWithApi", in) : in \in ApiInputSets}
         \cup {Call("convertWithCloudmersive", in) : in \in CloudInputSets}
         \cup {Call("convertWithPdfKit", in) : in \in KitInputSets}
         \cup {Call("createSimplePdfFromUrls", in) : in \in UrlInputSets}

Return(out) ==
  /\ ~calc.done
  /\ calc' = [calc EXCEPT !.done = TRUE, !.out = out]
  /\ UNCHANGED <<now, apiKey, jobs, blobs, nextId, nextBlob, task,
                 schedCount, returned, lastWrite, lastSweep, fallbackDone,
                 content, pdfFiles, lastConvertedPdf, polling>>

EvalMergedPdf ==
  calc.fn = "MergedPdf" /\ Return(MergedPdf(calc.in))

EvalConvertImagesWithApi ==
  calc.fn = "convertImagesWithApi" /\ Return(convertImagesWithApi(calc.in))

\* convertWithCloudmersive while the remote API answers
EvalConvertWithCloudmersive ==
  /\ calc.fn = "convertWithCloudmersive"
  /\ Return(IF convertWithCloudmersive(calc.in, TRUE)
              THEN [ok |-> TRUE, pdf |-> cloudmersivePdf(calc.in)]
              ELSE [ok |-> FALSE, pdf |-> Unreadable])

EvalConvertWithPdfKit ==
  calc.fn = "convertWithPdfKit" /\ Return(convertWithPdfKit(calc.in))

EvalCreateSimplePdfFromUrls ==
  calc.fn = "createSimplePdfFromUrls"
    /\ Return(createSimplePdfFromUrls(calc.in))

NextDocs ==
  \/ EvalMergedPdf
  \/ EvalConvertImagesWithApi
  \/ EvalConvertWithCloudmersive
  \/ EvalConvertWithPdfKit
  \/ EvalCreateSimplePdfFromUrls

SpecDocs == InitDocs /\ [][NextDocs]_vars

\* ------------------------------------------------------------------ claims
\* the blob a conversion of its type delivers
ResultBlobId(doc) ==
  IF doc.type = "pdf_to_word" THEN doc.docxFileId ELSE doc.pdfFileId

\* C1: as long as no client has patched a conversion, its status changes
\* only from processing to completed or failed, and a status that is
\* completed or failed is the same after every later step.
C1_StatusSettlesOnce ==
  [][\A j \in DOMAIN jobs \cap DOMAIN jobs' :
       (j \notin fallbackDone' /\ jobs'[j].status # jobs[j].status)
         => (jobs[j].status = "processing" /\ jobs'[j].status \in Terminal)]_vars

\* a conversion only its task has written, terminal for an hour already
C1_Witness ==
  \E j \in DOMAIN jobs :
    /\ jobs[j].status \in Terminal
    /\ j \notin fallbackDone
    /\ task[j].pc = "done"
    /\ lastWrite[j].applied
    /\ jobs[j].updatedAt < now

\* C2: in every state, the result blob id of a conversion (docxFileId for
\* pdf_to_word, pdfFileId otherwise) is set exactly when its status is
\* completed.
C2_ResultIffCompleted ==
  \A j \in DOMAIN jobs :
    (ResultBlobId(jobs[j]) # NoId) <=> (jobs[j].status = "completed")

\* C3: in every state, the error field of a conversion is set exactly when
\* its status is failed.
C3_ErrorIffFailed ==
  \A j \in DOMAIN jobs :
    (jobs[j].error # None) <=> (jobs[j].status = "failed")

\* C4: a patch of a conversion, by its task or by the client, is rejected
\* only when the record no longer exists, never because of the status the
\* record has; and as long as the record exists its status is the one the
\* last patch supplied.
C4_LastWriterWins ==
  \A j \in DOMAIN lastWrite :
    lastWrite[j].by # None =>
      /\ ~lastWrite[j].applied => j \notin DOMAIN jobs
      /\ (lastWrite[j].applied /\ j \in DOMAIN jobs)
           => jobs[j].status = lastWrite[j].status

\* the client completed the conversion with its own PDF, and the task's
\* write, applied after it, made the same record failed
C4_Witness ==
  \E j \in DOMAIN jobs :
    /\ j \in fallbackDone
    /\ task[j].pc = "done"
    /\ task[j].stored = NoId
    /\ jobs[j].pdfFileId # NoId
    /\ lastWrite[j].by = "dispatcher"
    /\ lastWrite[j].applied
    /\ jobs[j].status = "failed"

\* every blob a conversion references
ReferencedBlobs(doc) ==
  (Range(doc.sourceFileIds) \cup {doc.pdfFileId, doc.docxFileId}) \ {NoId}

\* the blobs the cleanup reclaims for a conversion
ReclaimedBlobs(doc) == {doc.pdfFileId, doc.docxFileId} \ {NoId}

\* C5: after a sweep, every conversion whose expiresAt was earlier than the
\* time of the sweep is gone from the table, and none of the blobs it
\* referenced (sources and result) is in storage any more.
C5_ExpiredJobAndBlobsGone ==
  [][cleanupExpiredConversions =>
       \A j \in Expired(jobs, now) :
         /\ j \notin DOMAIN jobs'
         /\ ReferencedBlobs(jobs[j]) \cap blobs' = {}]_vars

\* C6: in a sweep, every expired conversion whose own cleanup did not throw
\* has its record and its pdfFileId and docxFileId blobs deleted, whichever
\* other conversions of the same sweep threw.
C6_SweepIsolatesFailures ==
  [][cleanupExpiredConversions =>
       \A j \in Expired(jobs, now) \ lastSweep'.threw :
         /\ j \notin DOMAIN jobs'
         /\ ReclaimedBlobs(jobs[j]) \cap blobs' = {}]_vars

\* a sweep in which the cleanup of one conversion threw and a conversion
\* that came after it in the loop was deleted all the same
C6_Witness ==
  \E i \in lastSweep.threw, j \in lastSweep.expired \ lastSweep.threw :
    /\ i < j
    /\ i \in DOMAIN jobs
    /\ j \notin DOMAIN jobs
    /\ lastSweep.deletedCount >= 1

\* the write of a conversion's task is the last patch applied to it
DispatcherWroteLast(j) ==
  /\ j \in DOMAIN jobs
  /\ task[j].pc = "done"
  /\ lastWrite[j].by = "dispatcher"
  /\ lastWrite[j].applied

\* C7: once a conversion's task has written, the record is failed with the
\* message the chain raised as its error, or, when the chain returned
\* bytes, completed with the id of the blob the task stored as its result.
C7_WriteMatchesChainOutcome ==
  \A j \in DOMAIN jobs :
    DispatcherWroteLast(j) =>
      IF task[j].raised # None
        THEN jobs[j].status = "failed" /\ jobs[j].error = task[j].raised
        ELSE /\ jobs[j].status = "completed"
             /\ task[j].stored # NoId
             /\ ResultBlobId(jobs[j]) = task[j].stored

ImageTasksRun ==
  {j \in DOMAIN task : task[j].fn = "convertImagesToPdf"
                       /\ task[j].pc # "scheduled"}

\* C8 as stated: the tiers attempted are 1, 2, 3 in this order, and each
\* is attempted only after every tier before it was attempted and failed.
C8_EveryEarlierTierFailed ==
  \A j \in ImageTasksRun :
    LET a == task[j].tiers
    IN \A i \in DOMAIN a :
         a[i].tier = i /\ \A k \in 1..(i - 1) : ~a[k].ok

\* C8 amended: the chain starts with the remote tier when an API key is
\* set and with the embedded tier otherwise; after a tier that failed comes
\* the next tier; nothing is attempted after a tier that succeeded; and the
\* chain stops only at a success or after the minimal fallback tier.
C8_TiersInOrderFromFirstAvailable ==
  \A j \in ImageTasksRun :
    LET a == task[j].tiers
    IN a # <<>> =>
         /\ a[1].tier = IF apiKey THEN 1 ELSE 2
         /\ \A i \in 1..(Len(a) - 1) :
              ~a[i].ok /\ a[i + 1].tier = a[i].tier + 1
         /\ a[Len(a)].ok \/ a[Len(a)].tier = 3

\* with a key set, the remote and the embedded tier failed and the minimal
\* fallback tier produced the document
C8_Witness ==
  \E j \in ImageTasksRun :
    /\ apiKey
    /\ Len(task[j].tiers) = 3
    /\ ~task[j].tiers[1].ok
    /\ ~task[j].tiers[2].ok
    /\ task[j].tiers[3].ok

ImageJobsWritten ==
  {j \in DOMAIN jobs : task[j].fn = "convertImagesToPdf"
                       /\ DispatcherWroteLast(j)}

AllAttemptsFailed(a) == \A i \in DOMAIN a : ~a[i].ok

\* C9 as stated: an image conversion is failed only when tiers 1, 2 and 3
\* all failed, with the last tier's message as error; and when tiers 1 and
\* 2 failed and tier 3 succeeded it is completed with a result blob.
C9_FailedOnlyWhenThreeTiersFailed ==
  \A j \in ImageJobsWritten :
    LET a == task[j].tiers
    IN /\ jobs[j].status = "failed" =>
            /\ Len(a) = 3 /\ AllAttemptsFailed(a)
            /\ jobs[j].error = TierMessage(3)
       /\ (Len(a) = 3 /\ ~a[1].ok /\ ~a[2].ok /\ a[3].ok) =>
            jobs[j].status = "completed" /\ jobs[j].pdfFileId # NoId

\* C9 amended: the task leaves an image conversion failed when every tier
\* it attempted failed (tier 1 only with an API key, then 2 and 3), with
\* the minimal fallback tier's message as error; or when no source image
\* could be fetched or the upload of the document threw, with that
\* message as error. When the minimal fallback tier succeeded and its
\* document was uploaded, the conversion is completed with that blob.
C9_FailedOnExhaustionOrNoInputOrUpload ==
  \A j \in ImageJobsWritten :
    LET a == task[j].tiers
        n == Len(a)
    IN /\ jobs[j].status = "failed" =>
            \/ /\ a = <<>>
               /\ jobs[j].error \in {"No source images found",
                                     "No valid image URLs to convert"}
            \/ /\ Succeeded(a)
               /\ jobs[j].error = "fetch failed"
            \/ /\ a # <<>> /\ AllAttemptsFailed(a)
               /\ n = IF apiKey THEN 3 ELSE 2
               /\ a[n].tier = 3
               /\ jobs[j].error = TierMessage(3)
       /\ (a # <<>> /\ a[n].tier = 3 /\ a[n].ok /\ task[j].stored # NoId) =>
            /\ jobs[j].status = "completed"
            /\ jobs[j].pdfFileId = task[j].stored

\* an image conversion failed after all three tiers failed
C9_Witness ==
  \E j \in ImageJobsWritten :
    /\ jobs[j].status = "failed"
    /\ Len(task[j].tiers) = 3
    /\ AllAttemptsFailed(task[j].tiers)
    /\ jobs[j].error = TierMessage(3)

\* the action each creation mutation schedules
TaskFor(type) ==
  CASE type = "pdf_to_word" -> "convertPdfToWord"
    [] type = "image_to_pdf" -> "convertImagesToPdf"
    [] type = "pdf_merger" -> "mergePdfFiles"

\* C10: a creation call that inserts a conversion inserts it with status
\* processing, schedules the task of its type for its id exactly once in
\* the same step and returns its id, the task not having started; nothing
\* schedules a task for that id again.
C10_CreateSchedulesAndReturns ==
  [][/\ nextId' # nextId =>
          /\ nextId' = nextId + 1
          /\ nextId \in DOMAIN jobs'
          /\ jobs'[nextId].status = "processing"
          /\ schedCount'[nextId] = 1
          /\ task'[nextId].fn = TaskFor(jobs'[nextId].type)
          /\ task'[nextId].pc = "scheduled"
          /\ returned' = nextId
     /\ \A j \in DOMAIN schedCount : schedCount'[j] = schedCount[j]]_vars

\* a creation call has just returned the id of a conversion that is
\* processing and whose task has not started
C10_Witness ==
  /\ returned # NoId
  /\ returned \in DOMAIN jobs
  /\ jobs[returned].status = "processing"
  /\ task[returned].pc = "scheduled"
  /\ schedCount[returned] = 1

\* C11: a conversion's task runs its chain at most once and writes at most
\* once: a task that has run is never back at its start, and once it has
\* made its write it makes no other, so that the record changes afterwards
\* only by a client's patch or by the cleanup.
C11_NoJobLevelRetry ==
  [][\A j \in DOMAIN task :
       /\ task[j].pc # "scheduled" => task'[j].pc # "scheduled"
       /\ task[j].pc = "done" =>
            /\ task'[j] = task[j]
            /\ lastWrite'[j] # lastWrite[j] => lastWrite'[j].by = "client"
            /\ (j \in DOMAIN jobs' /\ jobs'[j] # jobs[j]) =>
                 j \in fallbackDone' \ fallbackDone]_vars

\* a pdf_to_word conversion whose task failed and wrote an hour ago
C11_Witness ==
  \E j \in DOMAIN jobs :
    /\ task[j].fn = "convertPdfToWord"
    /\ task[j].pc = "done"
    /\ task[j].raised # None
    /\ lastWrite[j] = [by |-> "dispatcher", status |-> "failed",
                       applied |-> TRUE]
    /\ jobs[j].updatedAt < now

\* C12: a call of startPdfMergerConversion with fewer than two source ids
\* fails at the call: it inserts no conversion, schedules no task and
\* returns no id.
C12_MergeRejectsFewerThanTwo ==
  [][\A c \in Callers, k \in 0..1 :
       startPdfMergerConversion(c, k) =>
         /\ jobs' = jobs
         /\ task' = task
         /\ schedCount' = schedCount
         /\ returned' = NoId]_vars

\* the conversions a caller gets back from the three queries
Listed(caller) ==
  {r._id : r \in UNION {Range(listConversions(jobs, blobs, caller, type)) :
                          type \in ConversionType}}

Fetched(caller) ==
  {j \in Created : \/ getConversion(jobs, blobs, j) # Null
                   \/ getConversionJob(jobs, j) # Null}

\* C13: whatever a caller gets back from listConversions, getConversion or
\* getConversionJob is a conversion whose userId is the caller's id.
C13_VisibleOnlyToOwner ==
  \A caller \in Callers :
    \A j \in Listed(caller) \cup Fetched(caller) :
      jobs[j].userId = caller

\* the documents held by the source files of a conversion
SourceDocs(j) ==
  [i \in DOMAIN jobs[j].sourceFileIds |-> content[jobs[j].sourceFileIds[i]]]

\* merge conversions whose task has written last, after it found and
\* downloaded at least two sources of which PDFLib.load opened none
MergedFromUnreadable ==
  {j \in DOMAIN jobs :
     /\ task[j].fn = "mergePdfFiles"
     /\ DispatcherWroteLast(j)
     /\ Len(jobs[j].sourceFileIds) >= 2
     /\ \A i \in DOMAIN jobs[j].sourceFileIds : ~SourceDocs(j)[i].opens
     /\ task[j].raised \notin {"Conversion not found",
                               "PDF file not found for ID",
                               "Failed to download PDF"}}

\* C15 as stated: a merge whose sources were all downloaded and of which
\* none could be opened raises nothing: the conversion is completed and its
\* pdfFileId is the file the task stored, a PDF with no page.
C15_AllUnreadableGivesZeroPages ==
  \A j \in MergedFromUnreadable :
    /\ task[j].raised = None
    /\ jobs[j].status = "completed"
    /\ jobs[j].pdfFileId = task[j].stored
    /\ content[task[j].stored].pages = <<>>

\* C15 amended: such a merge raises nothing and the conversion is completed
\* with the file the task stored as pdfFileId; that file is a PDF holding no
\* page of any source, only the one blank page that saving an empty
\* document adds.
C15_AllUnreadableStillCompletes ==
  \A j \in MergedFromUnreadable :
    /\ task[j].raised = None
    /\ jobs[j].status = "completed"
    /\ jobs[j].error = None
    /\ jobs[j].pdfFileId = task[j].stored
    /\ content[task[j].stored] = Pdf(<<[kind |-> "blank"]>>)

\* a completed merge of two unreadable sources
C15_Witness ==
  \E j \in MergedFromUnreadable :
    /\ Len(jobs[j].sourceFileIds) = 2
    /\ jobs[j].status = "completed"
    /\ jobs[j].pdfFileId \in blobs
    /\ content[jobs[j].pdfFileId].opens
    /\ \A p \in DOMAIN content[jobs[j].pdfFileId].pages :
         content[jobs[j].pdfFileId].pages[p].kind # "page"

\* the pages of the sources that open, source after source in the order
\* given, each source's pages in their own order
PagesOfReadable(sources) ==
  Concat([i \in DOMAIN SelectSeq(sources, LAMBDA d : d.opens) |->
            SelectSeq(sources, LAMBDA d : d.opens)[i].pages])

MergeReturned == calc.fn = "MergedPdf" /\ calc.done

\* C14 as stated: the merged document is exactly the pages of the sources
\* that open, in source order, whatever number of sources opens.
C14_MergeIsConcatenation ==
  MergeReturned => calc.out = Pdf(PagesOfReadable(calc.in))

\* C14 amended: the merge never fails on a source that does not open; the
\* pages of sources in the merged document are exactly the pages of the
\* sources that open, in source order, and when at least one source opens
\* the document has no other page; when none opens it is one blank page.
C14_MergeIsConcatenationOfReadable ==
  MergeReturned =>
    /\ calc.out.opens
    /\ SelectSeq(calc.out.pages, LAMBDA p : p.kind = "page")
         = PagesOfReadable(calc.in)
    /\ PagesOfReadable(calc.in) # <<>> =>
         calc.out.pages = PagesOfReadable(calc.in)
    /\ PagesOfReadable(calc.in) = <<>> =>
         calc.out.pages = <<[kind |-> "blank"]>>

\* a 2-page source, an unreadable one and a 5-page source gave 7 pages,
\* the first source's first
C14_Witness ==
  /\ MergeReturned
  /\ Len(calc.in) = 3
  /\ calc.in[1] = SourcePdf(1, 2)
  /\ ~calc.in[2].opens
  /\ calc.in[3] = SourcePdf(3, 5)
  /\ Len(calc.out.pages) = 7
  /\ calc.out.pages[1] = [kind |-> "page", src |-> 1, no |-> 1]
  /\ calc.out.pages[7] = [kind |-> "page", src |-> 3, no |-> 5]

ApiReturned == calc.fn = "convertImagesWithApi" /\ calc.done

\* C16, for convertImagesWithApi, which nothing calls: on N >= 1 images,
\* every merge call of convertImagesWithApi has at
\* most 10 inputs; every call after the first has the output of the call
\* before it as input 1 and at most 9 new documents after it; the PDF
\* returned holds the page of each of the N images once, in the order of
\* the images; one image makes no merge call and two images make one call
\* of the two-input endpoint.
C16_BatchedMergeKeepsEveryDocument ==
  ApiReturned =>
    LET calls == calc.out.calls
        n == Len(calc.in)
    IN /\ calc.out.raised = None
       /\ \A c \in DOMAIN calls : Len(calls[c].inputs) <= 10
       /\ \A c \in DOMAIN calls \ {1} :
            /\ calls[c].inputs[1] = calls[c - 1].out
            /\ Len(calls[c].inputs) - 1 <= 9
       /\ calc.out.pdf =
            Pdf([i \in 1..n |-> [kind |-> "image", src |-> calc.in[i],
                                 no |-> 1]])
       /\ n = 1 => calls = <<>>
       /\ n = 2 => /\ Len(calls) = 1
                   /\ calls[1].endpoint = "mergeDocumentPdf"
       /\ n > 2 => \A c \in DOMAIN calls :
                     calls[c].endpoint = "mergeDocumentPdfMulti"

\* twenty images took three rounds: ten documents, then the result with
\* nine more, then that result with the last one
C16_Witness ==
  /\ ApiReturned
  /\ Len(calc.in) = 20
  /\ Len(calc.out.calls) = 3
  /\ Len(calc.out.calls[1].inputs) = 10
  /\ Len(calc.out.calls[2].inputs) = 10
  /\ Len(calc.out.calls[3].inputs) = 2
  /\ Len(calc.out.pdf.pages) = 20

\* C16, for the remote tier the chain runs (convertWithCloudmersive): on
\* N >= 1 images, while the remote API answers, the tier returns a PDF that
\* holds the page of each of the N images once, in the order of the images.
C16_RemoteTierKeepsEveryDocument ==
  (calc.fn = "convertWithCloudmersive" /\ calc.done) =>
    /\ calc.out.ok
    /\ calc.out.pdf =
         Pdf([i \in DOMAIN calc.in |-> [kind |-> "image", src |-> calc.in[i],
                                        no |-> 1]])

\* convertWithPdfKit has returned or rejected for the images of a job
KitReturned == calc.fn = "convertWithPdfKit" /\ calc.done

\* C17: on K source images the embedded-authoring tier does not fail and its
\* output has exactly K pages, page i being the page of image i, or a
\* placeholder page for image i when that image cannot be placed.
C17_EmbeddedTierOnePagePerImage ==
  KitReturned =>
    /\ calc.out.ok
    /\ Len(calc.out.pdf.pages) = Len(calc.in)
    /\ \A i \in DOMAIN calc.in :
         /\ calc.out.pdf.pages[i].src = calc.in[i].url
         /\ calc.out.pdf.pages[i].kind =
              IF calc.in[i].placeable THEN "image" ELSE "placeholder"

\* createSimplePdfFromUrls has returned the document for a list of URLs
SimpleReturned == calc.fn = "createSimplePdfFromUrls" /\ calc.done

\* the smaller of the number of URLs and the limit of the list
ListedCount(urls) == Smaller(Len(urls), ListMax)

\* C18: for K >= 1 source URLs the minimal fallback tier gives a document of
\* exactly 2 pages, and its second page lists min(K, 30) references: line i
\* is the (shortened when long) URL i, for the first min(K, 30) URLs in
\* source order, and nothing else.
C18_FallbackTwoPagesThirtyReferences ==
  SimpleReturned =>
    /\ Len(calc.out.pages) = 2
    /\ calc.out.pages[2].kind = "references"
    /\ Len(calc.out.pages[2].lines) = ListedCount(calc.in)
    /\ \A i \in 1..ListedCount(calc.in) :
         /\ calc.out.pages[2].lines[i] =
              [no |-> i, ref |-> DisplayUrl(calc.in[i])]
         /\ calc.out.pages[2].lines[i].ref.id = calc.in[i].id

\* more URLs than the list holds: the list stops at the limit
C18_Witness ==
  /\ SimpleReturned
  /\ Len(calc.in) > ListMax
  /\ Len(calc.out.pages) = 2
  /\ Len(calc.out.pages[2].lines) = ListMax

\* the step is the write of conversion j's background task
TaskWrites(j) == task[j].pc = "writing" /\ task'[j].pc = "done"

\* the step is a client's call of updateConversionJob on conversion j
ClientWrites(j) == j \in fallbackDone' /\ j \notin fallbackDone

\* field f of conversion j after the step: the value supplied when one is
\* supplied, and the value before the step otherwise
Supplied(j, f, given, absent) ==
  jobs'[j][f] = IF given # absent THEN given ELSE jobs[j][f]

\* C19: a patch of a conversion changes only the fields its call supplies
\* and updatedAt, and no step changes a conversion's userId, type,
\* sourceFileIds, createdAt or expiresAt (nor its fileName) while the
\* conversion exists. markConversionComplete supplies the status and, on
\* success, docxFileId; updateConversionJob supplies the status and
\* pdfFileId on success, the status and error on failure.
C19_PatchChangesOnlySuppliedFields ==
  [][\A j \in DOMAIN jobs \cap DOMAIN jobs' :
       /\ \A f \in {"userId", "type", "sourceFileIds", "createdAt",
                    "expiresAt", "fileName"} : jobs'[j][f] = jobs[j][f]
       /\ (TaskWrites(j) /\ task[j].fn = "convertPdfToWord") =>
            /\ jobs'[j].status = lastWrite'[j].status
            /\ Supplied(j, "docxFileId", task[j].stored, NoId)
            /\ jobs'[j].pdfFileId = jobs[j].pdfFileId
            /\ jobs'[j].error = jobs[j].error
       /\ (TaskWrites(j) /\ task[j].fn # "convertPdfToWord") =>
            /\ jobs'[j].status = lastWrite'[j].status
            /\ Supplied(j, "pdfFileId", task[j].stored, NoId)
            /\ Supplied(j, "error", task[j].raised, None)
            /\ jobs'[j].docxFileId = jobs[j].docxFileId
       /\ ClientWrites(j) =>
            /\ jobs'[j].status = "completed"
            /\ jobs'[j].pdfFileId \in blobs' \ blobs
            /\ jobs'[j].error = jobs[j].error
            /\ jobs'[j].docxFileId = jobs[j].docxFileId
       /\ ~(TaskWrites(j) \/ ClientWrites(j)) => jobs'[j] = jobs[j]]_vars

\* a conversion patched an hour or more after its creation: completed with
\* its result, and its creation time, expiry, owner and source as created
C19_Witness ==
  \E j \in DOMAIN jobs :
    /\ lastWrite[j].applied
    /\ jobs[j].status = "completed"
    /\ jobs[j].docxFileId # NoId
    /\ jobs[j].updatedAt > jobs[j].createdAt
    /\ jobs[j].expiresAt = jobs[j].createdAt + TTL
    /\ jobs[j].userId \in Users
    /\ jobs[j].pdfFileId # NoId

\* the step in which the page of conversion j, not having seen the
\* conversion completed, has converted in the browser and uploaded the file
PageFellBack(j) ==
  /\ j \notin DOMAIN lastConvertedPdf
  /\ j \in DOMAIN lastConvertedPdf'
  /\ lastConvertedPdf'[j].by = "client"

\* C20: when the page has not seen its conversion completed after its wait
\* and its own conversion and upload succeed, it patches the conversion
\* whose id the creation returned: right after that step the conversion is
\* completed and its pdfFileId is the file the page has just uploaded.
C20_PagePatchesItsOwnJob ==
  [][\A j \in DOMAIN jobs :
       PageFellBack(j) =>
         /\ jobs'[j].status = "completed"
         /\ jobs'[j].pdfFileId = lastConvertedPdf'[j].storageId
         /\ jobs'[j].pdfFileId \in blobs' \ blobs]_vars

MissingKey == "Cloudmersive API key not found in environment variables"

\* pdf_to_word conversions whose task ran without an API key and has made
\* its write
RanWithoutKey ==
  {j \in DOMAIN jobs : /\ task[j].fn = "convertPdfToWord"
                       /\ task[j].pc = "done"
                       /\ task[j].raised = MissingKey
                       /\ lastWrite[j].applied}

\* C22: a pdf_to_word conversion whose task runs while no API key is
\* configured ends failed, with an error that names the missing
\* configuration, without docxFileId and without a stored result file.
C22_MissingKeyFailsWithMessage ==
  \A j \in RanWithoutKey :
    /\ jobs[j].status = "failed"
    /\ jobs[j].error = MissingKey
    /\ jobs[j].docxFileId = NoId
    /\ task[j].stored = NoId

\* the result files stored for conversion j: the file its task stored and
\* the files clients made in the browser and uploaded for it (the pipeline
\* holds one conversion at a time, so every client file is for it)
StoredFor(j) ==
  ({task[j].stored} \ {NoId})
    \cup {b \in DOMAIN content : content[b] = ClientPdf}

\* C23: under every interleaving of a conversion's task, a client's patch
\* of the same conversion and the cleanup, once the task has made its
\* write every result file stored for the conversion is referenced by its
\* record (pdfFileId or docxFileId) or is no longer in the storage; in
\* particular none remains once the record has been swept.
C23_StoredResultsReferencedOrDeleted ==
  \A j \in Created :
    task[j].pc = "done" =>
      \A b \in StoredFor(j) \cap blobs :
        /\ j \in DOMAIN jobs
        /\ b \in {jobs[j].pdfFileId, jobs[j].docxFileId}

\* merge conversions of at least two sources whose task found the record
\* and has made the last write to it
MergesWritten ==
  {j \in DOMAIN jobs : /\ task[j].fn = "mergePdfFiles"
                       /\ DispatcherWroteLast(j)
                       /\ Len(jobs[j].sourceFileIds) >= 2}

\* C24: a merge of at least two sources does not fail because of one
\* source: whether a source has no URL, its download fails or it cannot be
\* opened, the task raises nothing and the conversion is completed.
C24_OneBadSourceDoesNotFailTheMerge ==
  \A j \in MergesWritten :
    /\ task[j].raised = None
    /\ jobs[j].status = "completed"

\* the records a step deletes
Deleted == DOMAIN jobs \ DOMAIN jobs'

\* C25: the number a sweep returns is the number of records the sweep
\* deleted; every deleted record was expired and its cleanup did not throw,
\* and a conversion whose cleanup threw keeps its record and is not counted.
C25_CountIsNumberDeleted ==
  [][cleanupExpiredConversions =>
       /\ lastSweep'.deletedCount = Cardinality(Deleted)
       /\ Deleted \subseteq Expired(jobs, now) \ lastSweep'.threw
       /\ lastSweep'.threw \subseteq DOMAIN jobs']_vars

\* a sweep over two expired conversions that returned 1: the cleanup of one
\* threw, the record of the other was deleted
C25_Witness ==
  /\ Cardinality(lastSweep.expired) = 2
  /\ Cardinality(lastSweep.threw) = 1
  /\ lastSweep.deletedCount = 1
  /\ Cardinality(DOMAIN jobs) = 1
  /\ DOMAIN jobs = lastSweep.threw

\* C26: a sweep deletes the record of every expired conversion, also of one
\* for which the deletion of its pdfFileId or docxFileId file failed.
C26_RecordDeletedEvenIfBlobDeleteFails ==
  [][cleanupExpiredConversions =>
       \A j \in Expired(jobs, now) :
         /\ j \notin DOMAIN jobs'
         /\ j \in lastSweep'.threw => j \in Deleted]_vars

\* C27: a sweep at time now keeps every conversion whose expiresAt is now
\* or later and deletes every conversion whose expiresAt is before now,
\* whatever its status.
C27_SweepDeletesExactlyTheExpired ==
  [][cleanupExpiredConversions =>
       \A j \in DOMAIN jobs :
         /\ jobs[j].expiresAt >= now => j \in DOMAIN jobs'
         /\ jobs[j].expiresAt < now => j \notin DOMAIN jobs']_vars

\* conversions that were created and whose record has been deleted
Reaped == Created \ DOMAIN jobs

\* C28: a record the cleanup has deleted never reappears: no later step,
\* in particular no write of the conversion's task and no client's patch,
\* creates a record under that id, and getConversion returns null for it
\* from then on.
C28_DeletedRecordNeverReappears ==
  [][\A j \in Reaped :
       /\ j \notin DOMAIN jobs'
       /\ getConversion(jobs', blobs', j) = Null]_vars

\* a write attempted on a deleted record: it failed and left no record
C28_Witness ==
  \E j \in Reaped :
    /\ lastWrite[j].by \in {"dispatcher", "client"}
    /\ ~lastWrite[j].applied
    /\ lastSweep.deletedCount = 1
    /\ getConversion(jobs, blobs, j) = Null

\* C29: the page's status check of a pdf_to_word conversion goes on while
\* the conversion is seen processing, and once the conversion is completed
\* or failed the check eventually stops.
C29_PollingStopsOnceTerminal ==
  \A j \in 1..MaxJobs :
    (/\ j \in DOMAIN polling
     /\ j \in DOMAIN jobs
     /\ jobs[j].status \in Terminal)
      ~> (j \in DOMAIN polling /\ polling[j] = "stopped")

\* ----------------------------------------------- the list of conversions
\* a test for a result that looks at both URLs whatever the type
hasAnyUrl(conversion) ==
  conversion.docxUrl # NoId \/ conversion.pdfUrl # NoId

\* ConversionItem, hasDownloadableResult: the URL of the result of the
\* conversion's type is there
hasDownloadableResult(conversion) ==
  \/ conversion.doc.type = "pdf_to_word" /\ conversion.docxUrl # NoId
  \/ /\ conversion.doc.type \in {"image_to_pdf", "pdf_merger"}
     /\ conversion.pdfUrl # NoId

\* ConversionItem, displayStatus: the status the item shows
displayStatus(conversion) ==
  IF hasDownloadableResult(conversion) /\ conversion.doc.status = "failed"
    THEN "completed"
    ELSE conversion.doc.status

\* the items the list of its owner shows for the conversions of one type
Items(type) ==
  UNION {Range(listConversions(jobs, blobs, u, type)) : u \in Users}

\* C30: the list shows a conversion as completed when its stored status is
\* failed and the result file of its type (docxFileId for pdf_to_word,
\* pdfFileId for image_to_pdf and pdf_merger) is set and in the storage,
\* so that its download URL is present; in every other case it shows the
\* stored status.
C30_FailedWithResultShownCompleted ==
  \A type \in ConversionType :
    \A c \in Items(type) :
      displayStatus(c) =
        IF /\ jobs[c._id].status = "failed"
           /\ ResultBlobId(jobs[c._id]) # NoId
           /\ ResultBlobId(jobs[c._id]) \in blobs
          THEN "completed"
          ELSE jobs[c._id].status

\* a failed image_to_pdf conversion that holds a client's file is shown
\* as completed
C30_Witness ==
  \E c \in Items("image_to_pdf") :
    /\ jobs[c._id].status = "failed"
    /\ c.pdfUrl # NoId
    /\ displayStatus(c) = "completed"

====
